---- MODULE Spec2Model ----
(***************************************************************************)
(* Fairness evaluation engine of backend/bias/loan_approval.py             *)
(* (classification mode) and the pair scoring of                           *)
(* backend/bias/face_bias_evaluator.py (verification mode).                *)
(*                                                                         *)
(* Numbers.  Probabilities, similarities and thresholds are multiples of   *)
(* 1/ProbScale and are stored as the integer numerator.  Rates are exact   *)
(* rationals <<n, d>> with d > 0; <<0, 0>> stands for NaN.  Python floats  *)
(* are not modelled: n/d is the real quotient, not its rounded double.     *)
(***************************************************************************)
EXTENDS Integers, Sequences, FiniteSets, TLC

\* ------------------------------------------------------------------ bounds
MaxRecords == 2
ProbScale == 2
MaxGroups == 3
MaxCount == 1

NULL == "null"
GroupTags == {"A", "B"}
AllGroups == <<"A", "B", "C", "D", "E">>

ProbVals == 0..ProbScale
Thresholds == (0 - 1)..(ProbScale + 1)

\* --------------------------------------------------------------- rationals
Zero == <<0, 1>>
One == <<1, 1>>
NaN == <<0, 0>>

IsNaN(r) == r[2] = 0
RLe(a, b) == a[1] * b[2] <= b[1] * a[2]
RLt(a, b) == a[1] * b[2] < b[1] * a[2]
REq(a, b) == a[1] * b[2] = b[1] * a[2]
RSub(a, b) == <<a[1] * b[2] - b[1] * a[2], a[2] * b[2]>>
RDiv(a, b) == <<a[1] * b[2], a[2] * b[1]>>
RMaxOf(S) == CHOOSE m \in S : \A x \in S : RLe(x, m)
RMinOf(S) == CHOOSE m \in S : \A x \in S : RLe(m, x)
RMax2(a, b) == IF RLe(a, b) THEN b ELSE a

RECURSIVE SumOver(_, _)
SumOver(S, f) ==
  IF S = {} THEN 0
  ELSE LET x == CHOOSE y \in S : TRUE IN f[x] + SumOver(S \ {x}, f)

\* ---------------------------------------------------- ModelWrapper.predict
\* (probs >= threshold).astype(int)
predict_exclusive(prob, theta) == IF prob > theta THEN 1 ELSE 0

predict_inverted(prob, theta) == IF prob <= theta THEN 1 ELSE 0

predict(prob, theta) == IF prob >= theta THEN 1 ELSE 0

\* ------------------------------------------ MetricsEngine, per-group block
\* y_pred = (sub[pred_col] >= self.threshold).astype(int): the stored 0/1
\* prediction is compared with the threshold again.
RethresholdStrict(pred, theta) == IF pred * ProbScale > theta THEN 1 ELSE 0

Rethreshold(pred, theta) == IF pred * ProbScale >= theta THEN 1 ELSE 0

\* tp, fp, tn, fn of the rows idx of the scored table
Confusion(labels, preds, idx, theta) ==
  LET yp(i) == Rethreshold(preds[i], theta) IN
  [tp |-> Cardinality({i \in idx : yp(i) = 1 /\ labels[i] = 1}),
   fp |-> Cardinality({i \in idx : yp(i) = 1 /\ labels[i] = 0}),
   tn |-> Cardinality({i \in idx : yp(i) = 0 /\ labels[i] = 0}),
   fn |-> Cardinality({i \in idx : yp(i) = 0 /\ labels[i] = 1})]

\* a / b if b > 0 else 0.0
UnguardedRate(a, b) == <<a, b>>

GuardedRate(a, b) == IF b > 0 THEN <<a, b>> ELSE Zero

\* 2 * (precision * recall) / (precision + recall) if the sum is > 0 else 0.0
F1Score(p, r) ==
  IF p[1] * r[2] + r[1] * p[2] > 0
  THEN <<2 * p[1] * r[1], p[1] * r[2] + r[1] * p[2]>>
  ELSE Zero

\* the metric record with TPR and FPR taken over the whole group
GroupRecordOverTotal(c) ==
  LET total == c.tp + c.fp + c.tn + c.fn
      tpr == GuardedRate(c.tp, total)
      precision == GuardedRate(c.tp, c.tp + c.fp)
  IN [count |-> total,
      approval_rate |-> IF total > 0 THEN <<c.tp + c.fp, total>> ELSE NaN,
      accuracy |-> IF total > 0 THEN <<c.tp + c.tn, total>> ELSE NaN,
      tpr |-> tpr,
      fpr |-> GuardedRate(c.fp, total),
      tnr |-> GuardedRate(c.tn, c.tn + c.fp),
      fnr |-> GuardedRate(c.fn, c.fn + c.tp),
      precision |-> precision,
      recall |-> tpr,
      f1_score |-> F1Score(precision, tpr)]

\* the metric record of one group from its confusion counts
GroupRecord(c) ==
  LET total == c.tp + c.fp + c.tn + c.fn
      tpr == GuardedRate(c.tp, c.tp + c.fn)
      precision == GuardedRate(c.tp, c.tp + c.fp)
  IN [count |-> total,
      approval_rate |-> IF total > 0 THEN <<c.tp + c.fp, total>> ELSE NaN,
      accuracy |-> IF total > 0 THEN <<c.tp + c.tn, total>> ELSE NaN,
      tpr |-> tpr,
      fpr |-> GuardedRate(c.fp, c.fp + c.tn),
      tnr |-> GuardedRate(c.tn, c.tn + c.fp),
      fnr |-> GuardedRate(c.fn, c.fn + c.tp),
      precision |-> precision,
      recall |-> tpr,
      f1_score |-> F1Score(precision, tpr)]

\* df.groupby(group_col): one partition per non-null key, rows with a null
\* key belong to no partition (pandas' dropna=True default)
GroupBy(tags) == {tags[i] : i \in DOMAIN tags} \ {NULL}

\* bootstrap_ci(y_pred, np.mean): percentiles of the means of resamples drawn
\* from the process-wide numpy generator.  A group of `total` predictions with
\* `approved` ones: every resample of a constant array has the same mean; a
\* mixed array gives any lower <= upper, kept here on the grid k / total.
bootstrap_ci(total, approved) ==
  IF approved = 0 \/ approved = total
    THEN {<<approved, approved>>}
    ELSE {ci \in (0..total) \X (0..total) : ci[1] <= ci[2]}

\* approval_rate_ci of every group, one bootstrap per group
approval_rate_ci(counts) ==
  {ci \in [DOMAIN counts -> (0..MaxRecords) \X (0..MaxRecords)] :
     \A g \in DOMAIN counts :
       ci[g] \in bootstrap_ci(counts[g].tp + counts[g].fp + counts[g].tn
                                + counts[g].fn,
                              counts[g].tp + counts[g].fp)}

group_confusion(tags, labels, preds, theta) ==
  [g \in GroupBy(tags) |->
     Confusion(labels, preds, {i \in DOMAIN tags : tags[i] = g}, theta)]

compute_group_metrics(counts) == [g \in DOMAIN counts |-> GroupRecord(counts[g])]

\* ------------------------------ MetricsEngine.compute_fairness_metrics
MetricNames == {"demographic_parity_difference", "demographic_parity_ratio",
                "equal_opportunity_difference", "equalized_odds_difference",
                "disparate_impact"}

EmptyMetrics == [k \in {} |-> Zero]

\* (min / max) if max > 0 else 0.0
RatioNoGuard(lo, hi) == IF hi[1] > 0 THEN RDiv(lo, hi) ELSE One

Ratio(lo, hi) == IF hi[1] > 0 THEN RDiv(lo, hi) ELSE Zero

\* eq_odds_diff = max(tpr_diff, fpr_diff)
EqOddsSum(tpr_diff, fpr_diff) ==
  <<tpr_diff[1] * fpr_diff[2] + fpr_diff[1] * tpr_diff[2],
    tpr_diff[2] * fpr_diff[2]>>

EqOddsFprOnly(tpr_diff, fpr_diff) == fpr_diff

EqOdds(tpr_diff, fpr_diff) == RMax2(tpr_diff, fpr_diff)

FewGroupsAtMostTwo(gm) == Cardinality(DOMAIN gm) <= 2

FewGroupsNone(gm) == Cardinality(DOMAIN gm) < 1

FewGroups(gm) == Cardinality(DOMAIN gm) < 2

compute_fairness_metrics(gm) ==
  IF FewGroups(gm) THEN EmptyMetrics
  ELSE
    LET groups == DOMAIN gm
        approval_rates == {gm[g].approval_rate : g \in groups}
        tprs == {gm[g].tpr : g \in groups}
        fprs == {gm[g].fpr : g \in groups}
        dp_diff == RSub(RMaxOf(approval_rates), RMinOf(approval_rates))
        dp_ratio == Ratio(RMinOf(approval_rates), RMaxOf(approval_rates))
        eo_diff == RSub(RMaxOf(tprs), RMinOf(tprs))
        tpr_diff == RSub(RMaxOf(tprs), RMinOf(tprs))
        fpr_diff == RSub(RMaxOf(fprs), RMinOf(fprs))
        eq_odds_diff == EqOdds(tpr_diff, fpr_diff)
    IN [demographic_parity_difference |-> dp_diff,
        demographic_parity_ratio |-> dp_ratio,
        equal_opportunity_difference |-> eo_diff,
        equalized_odds_difference |-> eq_odds_diff,
        disparate_impact |-> dp_ratio]

\* ------------------------------------------ MetricsEngine.identify_flags
\* the literals 0.8 and 0.10 of the four rules
DI_BOUND == <<4, 5>>
DIFF_BOUND == <<1, 10>>

\* fairness_metrics.get(name, default)
Get(fm, name, default) == IF name \in DOMAIN fm THEN fm[name] ELSE default

\* f"{x:.3f}" of a non-negative value, as a number of thousandths
\* (round to nearest, an exact tie to the even neighbour)
Format3(r) ==
  LET q == (r[1] * 1000) \div r[2]
      rem == (r[1] * 1000) % r[2]
  IN IF 2 * rem > r[2] THEN q + 1
     ELSE IF 2 * rem = r[2] /\ q % 2 = 1 THEN q + 1
     ELSE q

\* one message: which rule, and the value printed in it
Flag(name, fm) == [metric |-> name, shown |-> Format3(fm[name])]

BelowOrAt(x, bound) == RLe(x, bound)

Below(x, bound) == RLt(x, bound)

Above(x, bound) == RLt(bound, x)

identify_flags(fm) ==
  (IF Below(Get(fm, "disparate_impact", One), DI_BOUND)
     THEN <<Flag("disparate_impact", fm)>> ELSE <<>>)
  \o (IF Above(Get(fm, "demographic_parity_difference", Zero), DIFF_BOUND)
     THEN <<Flag("demographic_parity_difference", fm)>> ELSE <<>>)
  \o (IF Above(Get(fm, "equal_opportunity_difference", Zero), DIFF_BOUND)
     THEN <<Flag("equal_opportunity_difference", fm)>> ELSE <<>>)
  \o (IF Above(Get(fm, "equalized_odds_difference", Zero), DIFF_BOUND)
     THEN <<Flag("equalized_odds_difference", fm)>> ELSE <<>>)

\* ------------------------------ MitigationAdvisor.generate_recommendations
generate_recommendations_no_return(fm, fl) ==
  (IF Len(fl) = 0 THEN <<"NO_ISSUES">> ELSE <<>>)
  \o (IF RLt(Get(fm, "disparate_impact", One), DI_BOUND)
        THEN <<"DISPARATE_IMPACT", "PROXY_FEATURES">> ELSE <<>>)
  \o (IF RLt(DIFF_BOUND, Get(fm, "equal_opportunity_difference", Zero))
        THEN <<"EQUAL_OPPORTUNITY_GAP">> ELSE <<>>)
  \o <<"", "GENERAL">>

generate_recommendations(fm, fl) ==
  IF Len(fl) = 0 THEN <<"NO_ISSUES">>
  ELSE (IF RLt(Get(fm, "disparate_impact", One), DI_BOUND)
          THEN <<"DISPARATE_IMPACT", "PROXY_FEATURES">> ELSE <<>>)
       \o (IF RLt(DIFF_BOUND, Get(fm, "equal_opportunity_difference", Zero))
          THEN <<"EQUAL_OPPORTUNITY_GAP">> ELSE <<>>)
       \o <<"", "GENERAL">>

\* ReportGenerator.generate_summary_json: 'FAIL' if flags else 'PASS'
SummaryAssessmentInverted(fl) == IF Len(fl) > 0 THEN "PASS" ELSE "FAIL"

SummaryAssessment(fl) == IF Len(fl) > 0 THEN "FAIL" ELSE "PASS"

\* run_evaluation's returned summary: 'FAIL' if flags else 'PASS'
ResultAssessment(fl) == IF Len(fl) > 0 THEN "FAIL" ELSE "PASS"

\* ------------------------------------------------------------------ state
VARIABLES
  threshold,        \* MLFairnessEvaluator.threshold = MetricsEngine.threshold
  inputs_valid,     \* model file, data file and params pass validate_inputs
  columns_ok,       \* the CSV has every required column
  tags,             \* the sensitive-attribute column, NULL for a null cell
  labels,           \* the label column, 1 = positive_label
  probability,      \* df['probability'] after inference
  prediction,       \* df['prediction'] after inference
  pc,               \* position of the run
  overall_metrics,
  group_metrics,
  fairness_metrics,
  flags,
  recommendations,
  summary_json,     \* the written summary.json
  result,           \* what run_evaluation returns
  group_counts,     \* tp, fp, tn, fn of each partition (loop locals)
  similarity,       \* verification mode: cosine similarity of one pair
  pairs,            \* ResultsGenerator.results["pairs"]
  approval_ci,      \* approval_rate_ci of each group
  files,            \* report files written to output_dir
  threshold2,       \* threshold of a second evaluation of the same records
  group_metrics2,   \* per-group metrics of the second evaluation
  approval_ci2,     \* approval_rate_ci of the second evaluation
  flag_config,      \* flag bounds the caller asks for in this run
  embeddings_df,    \* face-recognition-bias.py: rows of identity, group, embedding
  pair_list,        \* generate_pairs: the list being built
  gp,               \* generate_pairs: phase and loop position
  face_report,      \* overall and per-group FMR/FNMR
  images,           \* face_bias_evaluator.py: the image files of the dataset
  augmentations,    \* FaceBiasEvaluator.augmentations
  aug_pos,          \* run_evaluation: image index and processed_images
  aug_report,       \* compute_metrics' report, or the error raised
  dataset,          \* face-recognition-bias.py: image files found on disk
  substituted,      \* rows whose image or embedding is np.random data
  model_file,       \* ModelWrapper: the uploaded model file
  environment,      \* ALLOW_UNTRUSTED_MODELS and the importable libraries
  model,            \* ModelWrapper.model, or the error _load_model raised
  runs,             \* two concurrent run_evaluation calls: locals of each
  shared            \* what both calls reach: disk, pyplot's current figure

vars == <<threshold, inputs_valid, columns_ok, tags, labels, probability,
          prediction, pc, overall_metrics, group_metrics, fairness_metrics,
          flags, recommendations, summary_json, result, group_counts,
          similarity, pairs, approval_ci, files, threshold2, group_metrics2,
          approval_ci2, flag_config, embeddings_df, pair_list, gp,
          face_report, images, augmentations, aug_pos, aug_report,
          dataset, substituted, model_file, environment, model, runs,
          shared>>

\* state of the other evaluators, untouched by the classification pipeline
twice == <<threshold2, group_metrics2, approval_ci2>>
face == <<embeddings_df, pair_list, gp, face_report>>
augm == <<images, augmentations, aug_pos, aug_report>>
load == <<dataset, substituted>>
mload == <<model_file, environment, model>>
conc == <<runs, shared>>

inputs == <<threshold, inputs_valid, columns_ok, tags, labels, similarity,
            flag_config, twice, face, augm, load, mload, conc>>

\* the bounds identify_flags is written with, and another set a caller may want
DefaultConfig == [disparate_impact |-> DI_BOUND, difference |-> DIFF_BOUND]
FlagConfigs == {DefaultConfig,
                [disparate_impact |-> <<1, 2>>, difference |-> <<1, 4>>]}

NoCI == <<NULL, NULL>>
NoPosition == [phase |-> "idle", k |-> 0, count |-> 0]
NoReport == [status |-> "none"]

TwiceIdle ==
  /\ threshold2 = 0
  /\ group_metrics2 = EmptyMetrics
  /\ approval_ci2 = EmptyMetrics

FaceIdle ==
  /\ embeddings_df = <<>>
  /\ pair_list = <<>>
  /\ gp = NoPosition
  /\ face_report = NoReport

AugIdle ==
  /\ images = <<>>
  /\ augmentations = <<>>
  /\ aug_pos = [img |-> 0, processed_images |-> 0]
  /\ aug_report = NoReport

NoSubstitutes == [sample |-> FALSE, rows |-> {}]

LoadIdle ==
  /\ dataset = <<>>
  /\ substituted = NoSubstitutes

ModelIdle ==
  /\ model_file = [ext |-> "none"]
  /\ environment = [name |-> "none"]
  /\ model = [status |-> "none"]

ConcIdle ==
  /\ runs = <<>>
  /\ shared = [name |-> "none"]

OthersIdle == LoadIdle /\ ModelIdle /\ ConcIdle

Rows == DOMAIN tags

NoOverall == [total_records |-> 0, approval_rate |-> NaN, accuracy |-> NaN]
NoSummary == [assessment |-> "none", flags |-> <<>>]
Pending == [status |-> "pending"]

Tables(n) == [1..n -> GroupTags \cup {NULL}] \X [1..n -> {0, 1}]

\* --------------------------------------- MLFairnessEvaluator.run_evaluation
Init ==
  /\ threshold \in Thresholds
  /\ inputs_valid \in BOOLEAN
  /\ columns_ok \in BOOLEAN
  /\ \E n \in 0..MaxRecords : \E t \in Tables(n) :
       tags = t[1] /\ labels = t[2]
  /\ probability = <<>>
  /\ prediction = <<>>
  /\ pc = "start"
  /\ overall_metrics = NoOverall
  /\ group_metrics = EmptyMetrics
  /\ fairness_metrics = EmptyMetrics
  /\ flags = <<>>
  /\ recommendations = <<>>
  /\ summary_json = NoSummary
  /\ result = Pending
  /\ group_counts = EmptyMetrics
  /\ similarity = 0
  /\ pairs = <<>>
  /\ approval_ci = EmptyMetrics
  /\ files = {}
  /\ flag_config = DefaultConfig
  /\ OthersIdle
  /\ TwiceIdle
  /\ FaceIdle
  /\ AugIdle

\* except Exception as e: return {'status': 'error', ...}
Fail(error) ==
  /\ pc' = "error"
  /\ result' = [status |-> "error", error |-> error]

validate_inputs ==
  /\ pc = "start"
  /\ IF inputs_valid
       THEN pc' = "validated" /\ UNCHANGED result
       ELSE Fail("invalid inputs")
  /\ UNCHANGED <<inputs, approval_ci, files, probability, prediction, overall_metrics,
                 group_metrics, fairness_metrics, flags, recommendations,
                 summary_json, group_counts, pairs>>

\* SchemaValidator.validate_csv: missing columns and an empty table raise,
\* null cells are only logged
validate_csv_lenient == Len(tags) > 0

validate_csv == columns_ok /\ Len(tags) > 0

load_and_prepare_data ==
  /\ pc = "validated"
  /\ IF validate_csv
       THEN pc' = "loaded" /\ UNCHANGED result
       ELSE Fail("Failed to load CSV")
  /\ UNCHANGED <<inputs, approval_ci, files, probability, prediction, overall_metrics,
                 group_metrics, fairness_metrics, flags, recommendations,
                 summary_json, group_counts, pairs>>

\* the scoring adapter returns one probability per row
run_inference ==
  /\ pc = "loaded"
  /\ \E probs \in [Rows -> ProbVals] :
       /\ probability' = probs
       /\ prediction' = [i \in Rows |-> predict(probs[i], threshold)]
  /\ pc' = "inferred"
  /\ UNCHANGED <<inputs, approval_ci, files, overall_metrics, group_metrics, fairness_metrics,
                 flags, recommendations, summary_json, result, group_counts, pairs>>

\* ModelWrapper raises ModelLoadingError (model cannot be loaded or scored)
run_inference_fails ==
  /\ pc = "loaded"
  /\ Fail("Failed to load model or prediction failed")
  /\ UNCHANGED <<inputs, approval_ci, files, probability, prediction, overall_metrics,
                 group_metrics, fairness_metrics, flags, recommendations,
                 summary_json, group_counts, pairs>>

evaluate_fairness ==
  /\ pc = "inferred"
  /\ LET counts == group_confusion(tags, labels, prediction, threshold)
         gm == compute_group_metrics(counts)
         fm == compute_fairness_metrics(gm)
         n == Len(tags)
     IN /\ group_counts' = counts
        /\ group_metrics' = gm
        /\ overall_metrics' =
             [total_records |-> n,
              approval_rate |->
                <<Cardinality({i \in Rows : prediction[i] = 1}), n>>,
              accuracy |->
                <<Cardinality({i \in Rows : prediction[i] = labels[i]}), n>>]
        /\ fairness_metrics' = fm
        /\ flags' = identify_flags(fm)
        /\ approval_ci' \in approval_rate_ci(counts)
  /\ pc' = "evaluated"
  /\ UNCHANGED <<inputs, files, probability, prediction, recommendations,
                 summary_json, result, pairs>>

\* charts are written from group_metrics; nothing flows back
generate_visualizations ==
  /\ pc = "evaluated"
  /\ pc' = "visualized"
  /\ UNCHANGED <<inputs, approval_ci, files, probability, prediction, overall_metrics,
                 group_metrics, fairness_metrics, flags, recommendations,
                 summary_json, result, group_counts, pairs>>

\* savefig or a chart call raises inside generate_visualizations
generate_visualizations_fails ==
  /\ pc = "evaluated"
  /\ Fail("visualization failed")
  /\ UNCHANGED <<inputs, approval_ci, files, probability, prediction,
                 overall_metrics, group_metrics, fairness_metrics, flags,
                 recommendations, summary_json, group_counts, pairs>>

\* the files generate_reports writes, in the order it writes them
ReportFiles == <<"predictions_with_group.csv", "group_metrics.csv",
                 "summary.json", "recommendations.txt">>
ReportZip == "fairness_results.zip"
Written(k) == {ReportFiles[i] : i \in 1..k}

generate_summary_json(overall, gm, fm, fl) ==
  [overall |-> overall, group_summary |-> gm, fairness_metrics |-> fm,
   flags |-> fl, assessment |-> SummaryAssessment(fl)]

generate_reports ==
  /\ pc = "visualized"
  /\ recommendations' = generate_recommendations(fairness_metrics, flags)
  /\ summary_json' = generate_summary_json(overall_metrics, group_metrics,
                                           fairness_metrics, flags)
  /\ files' = Written(Len(ReportFiles)) \cup {ReportZip}
  /\ pc' = "reported"
  /\ UNCHANGED <<inputs, approval_ci, probability, prediction, overall_metrics,
                 group_metrics, fairness_metrics, flags, result,
                 group_counts, pairs>>

\* a write raises after k of the report files are on disk; create_report_zip
\* is the last call, so the zip is never written on this path
generate_reports_fails ==
  /\ pc = "visualized"
  /\ recommendations' = generate_recommendations(fairness_metrics, flags)
  /\ \E k \in 0..Len(ReportFiles) :
       /\ files' = Written(k)
       /\ summary_json' =
            IF k >= 3
              THEN generate_summary_json(overall_metrics, group_metrics,
                                         fairness_metrics, flags)
              ELSE summary_json
  /\ Fail("report failed")
  /\ UNCHANGED <<inputs, approval_ci, probability, prediction, overall_metrics,
                 group_metrics, fairness_metrics, flags, group_counts, pairs>>

\* the summary dict returned after generate_reports
return_summary ==
  /\ pc = "reported"
  /\ result' = [status |-> "success",
                assessment |-> ResultAssessment(flags),
                overall |-> overall_metrics,
                group_summary |-> group_metrics,
                fairness_metrics |-> fairness_metrics,
                flags |-> flags]
  /\ pc' = "done"
  /\ UNCHANGED <<inputs, approval_ci, files, probability, prediction, overall_metrics,
                 group_metrics, fairness_metrics, flags, recommendations,
                 summary_json, group_counts, pairs>>

Next ==
  \/ validate_inputs
  \/ load_and_prepare_data
  \/ run_inference
  \/ run_inference_fails
  \/ evaluate_fairness
  \/ generate_visualizations
  \/ generate_visualizations_fails
  \/ generate_reports
  \/ generate_reports_fails
  \/ return_summary

Spec == Init /\ [][Next]_vars

\* ----------------------------------------------------------------------
\* The disparity pipeline over given per-group confusion counts:
\* compute_group_metrics' per-group block, compute_fairness_metrics,
\* identify_flags, generate_recommendations, generate_summary_json.
\* ----------------------------------------------------------------------
Groups == {AllGroups[i] : i \in 1..MaxGroups}

\* groups A (80 samples, 40 approved) and B (20 samples, 4 approved)
ScenarioA == [tp |-> 30, fp |-> 10, tn |-> 30, fn |-> 10]
ScenarioB == [tp |-> 3, fp |-> 1, tn |-> 12, fn |-> 4]
\* approval rate 2/5 and TPR 2/5: against a group at 1/2 every disparity
\* lies exactly on its bound
OnBound == [tp |-> 2, fp |-> 0, tn |-> 0, fn |-> 3]
HalfApproved == [tp |-> 1, fp |-> 0, tn |-> 0, fn |-> 1]

CountChoices ==
  {c \in [tp : 0..MaxCount, fp : 0..MaxCount, tn : 0..MaxCount,
          fn : 0..MaxCount] : c.tp + c.fp + c.tn + c.fn \in 1..MaxCount}
  \cup {ScenarioA, ScenarioB, OnBound, HalfApproved}

InitFair ==
  /\ \E S \in SUBSET Groups : group_counts \in [S -> CountChoices]
  /\ pc = "fair_start"
  /\ threshold = 1
  /\ inputs_valid = TRUE
  /\ columns_ok = TRUE
  /\ tags = <<>>
  /\ labels = <<>>
  /\ probability = <<>>
  /\ prediction = <<>>
  /\ overall_metrics = NoOverall
  /\ group_metrics = EmptyMetrics
  /\ fairness_metrics = EmptyMetrics
  /\ flags = <<>>
  /\ recommendations = <<>>
  /\ summary_json = NoSummary
  /\ result = Pending
  /\ similarity = 0
  /\ pairs = <<>>
  /\ approval_ci = EmptyMetrics
  /\ files = {}
  /\ flag_config \in FlagConfigs
  /\ OthersIdle
  /\ TwiceIdle
  /\ FaceIdle
  /\ AugIdle

FairGroupMetrics ==
  /\ pc = "fair_start"
  /\ group_metrics' = compute_group_metrics(group_counts)
  /\ pc' = "fair_grouped"
  /\ UNCHANGED <<inputs, approval_ci, files, probability, prediction, overall_metrics,
                 fairness_metrics, flags, recommendations, summary_json,
                 result, group_counts, pairs>>

FairEvaluate ==
  /\ pc = "fair_grouped"
  /\ fairness_metrics' = compute_fairness_metrics(group_metrics)
  /\ flags' = identify_flags(compute_fairness_metrics(group_metrics))
  /\ pc' = "fair_evaluated"
  /\ UNCHANGED <<inputs, approval_ci, files, probability, prediction, overall_metrics,
                 group_metrics, recommendations, summary_json, result,
                 group_counts, pairs>>

FairReport ==
  /\ pc = "fair_evaluated"
  /\ recommendations' = generate_recommendations(fairness_metrics, flags)
  /\ summary_json' = generate_summary_json(overall_metrics, group_metrics,
                                           fairness_metrics, flags)
  /\ pc' = "fair_reported"
  /\ UNCHANGED <<inputs, approval_ci, files, probability, prediction, overall_metrics,
                 group_metrics, fairness_metrics, flags, result,
                 group_counts, pairs>>

NextFair == FairGroupMetrics \/ FairEvaluate \/ FairReport

SpecFair == InitFair /\ [][NextFair]_vars

\* ----------------------------------------------------------------------
\* The decision rule on one scored record and on one scored pair:
\* ModelWrapper.predict, the re-thresholding of compute_group_metrics and
\* ResultsGenerator.add (face_bias_evaluator.py).
\* ----------------------------------------------------------------------
SimVals == (0 - ProbScale)..ProbScale

\* ResultsGenerator.add
add(prs, group, aug, label, sim, theta) ==
  Append(prs, [group |-> group, augmentation |-> aug, label |-> label,
               similarity |-> sim,
               prediction |-> IF sim >= theta THEN 1 ELSE 0])

InitThreshold ==
  /\ threshold \in Thresholds
  /\ tags = <<"A">>
  /\ labels \in [{1} -> {0, 1}]
  /\ probability \in [{1} -> ProbVals]
  /\ similarity \in SimVals
  /\ pc = "th_start"
  /\ inputs_valid = TRUE
  /\ columns_ok = TRUE
  /\ prediction = <<>>
  /\ overall_metrics = NoOverall
  /\ group_metrics = EmptyMetrics
  /\ fairness_metrics = EmptyMetrics
  /\ flags = <<>>
  /\ recommendations = <<>>
  /\ summary_json = NoSummary
  /\ result = Pending
  /\ group_counts = EmptyMetrics
  /\ pairs = <<>>
  /\ approval_ci = EmptyMetrics
  /\ files = {}
  /\ flag_config = DefaultConfig
  /\ OthersIdle
  /\ TwiceIdle
  /\ FaceIdle
  /\ AugIdle

ThPredict ==
  /\ pc = "th_start"
  /\ prediction' = [i \in Rows |-> predict(probability[i], threshold)]
  /\ pc' = "th_predicted"
  /\ UNCHANGED <<inputs, approval_ci, files, probability, overall_metrics, group_metrics,
                 fairness_metrics, flags, recommendations, summary_json,
                 result, group_counts, pairs>>

ThCount ==
  /\ pc = "th_predicted"
  /\ group_counts' = group_confusion(tags, labels, prediction, threshold)
  /\ pc' = "th_counted"
  /\ UNCHANGED <<inputs, approval_ci, files, probability, prediction, overall_metrics,
                 group_metrics, fairness_metrics, flags, recommendations,
                 summary_json, result, pairs>>

ThAddPair ==
  /\ pc = "th_counted"
  /\ pairs' = add(pairs, "A", "original", 1, similarity, threshold)
  /\ pc' = "th_paired"
  /\ UNCHANGED <<inputs, approval_ci, files, probability, prediction, overall_metrics,
                 group_metrics, fairness_metrics, flags, recommendations,
                 summary_json, result, group_counts>>

NextThreshold == ThPredict \/ ThCount \/ ThAddPair

SpecThreshold == InitThreshold /\ [][NextThreshold]_vars

\* ------------------ the same scored records evaluated under two thresholds
\* run_inference's predict and MetricsEngine.compute_group_metrics, once with
\* threshold and once more with threshold2, on one table of scored records.
ScoredTables(n) ==
  [1..n -> GroupTags] \X [1..n -> {0, 1}] \X [1..n -> ProbVals]

InitTwice ==
  /\ threshold \in Thresholds
  /\ threshold2 \in {t \in Thresholds : threshold <= t}
  /\ \E n \in 1..MaxRecords : \E t \in ScoredTables(n) :
       tags = t[1] /\ labels = t[2] /\ probability = t[3]
  /\ pc = "two_start"
  /\ inputs_valid = TRUE
  /\ columns_ok = TRUE
  /\ prediction = <<>>
  /\ overall_metrics = NoOverall
  /\ group_metrics = EmptyMetrics
  /\ fairness_metrics = EmptyMetrics
  /\ flags = <<>>
  /\ recommendations = <<>>
  /\ summary_json = NoSummary
  /\ result = Pending
  /\ group_counts = EmptyMetrics
  /\ similarity = 0
  /\ pairs = <<>>
  /\ approval_ci = EmptyMetrics
  /\ files = {}
  /\ flag_config = DefaultConfig
  /\ OthersIdle
  /\ group_metrics2 = EmptyMetrics
  /\ approval_ci2 = EmptyMetrics
  /\ FaceIdle
  /\ AugIdle

TwoFirst ==
  /\ pc = "two_start"
  /\ LET preds == [i \in Rows |-> predict(probability[i], threshold)]
         counts == group_confusion(tags, labels, preds, threshold)
     IN /\ prediction' = preds
        /\ group_counts' = counts
        /\ group_metrics' = compute_group_metrics(counts)
        /\ approval_ci' \in approval_rate_ci(counts)
  /\ pc' = "two_first"
  /\ UNCHANGED <<inputs, files, probability, overall_metrics,
                 fairness_metrics, flags, recommendations, summary_json,
                 result, pairs>>

TwoSecond ==
  /\ pc = "two_first"
  /\ LET preds == [i \in Rows |-> predict(probability[i], threshold2)]
         counts == group_confusion(tags, labels, preds, threshold2)
     IN /\ group_metrics2' = compute_group_metrics(counts)
        /\ approval_ci2' \in approval_rate_ci(counts)
  /\ pc' = "two_done"
  /\ UNCHANGED <<threshold, inputs_valid, columns_ok, tags, labels,
                 similarity, flag_config, threshold2, face, augm, load,
                 mload, conc,
                 approval_ci, files, probability, prediction, overall_metrics,
                 group_metrics, fairness_metrics, flags, recommendations,
                 summary_json, result, group_counts, pairs>>

NextTwice == TwoFirst \/ TwoSecond

SpecTwice == InitTwice /\ [][NextTwice]_vars

\* ------------------------------ face_bias_evaluator.py: ResultsGenerator
\* FMR taken as the share of matching pairs, whatever their label
PairBucketMatchRate(prs) ==
  LET Match == {i \in DOMAIN prs : prs[i].prediction = 1}
      FalseNonMatch == {i \in DOMAIN prs :
                          prs[i].label = 1 /\ prs[i].prediction = 0}
      Correct == {i \in DOMAIN prs : prs[i].label = prs[i].prediction}
  IN [FMR |-> <<Cardinality(Match), Len(prs)>>,
      FNMR |-> <<Cardinality(FalseNonMatch), Len(prs)>>,
      accuracy |-> <<Cardinality(Correct), Len(prs)>>]

\* (test).mean() over the recorded pairs of a bucket (NaN when empty)
PairBucket(prs) ==
  LET FalseMatch == {i \in DOMAIN prs :
                       prs[i].label = 0 /\ prs[i].prediction = 1}
      FalseNonMatch == {i \in DOMAIN prs :
                          prs[i].label = 1 /\ prs[i].prediction = 0}
      Correct == {i \in DOMAIN prs : prs[i].label = prs[i].prediction}
  IN [FMR |-> <<Cardinality(FalseMatch), Len(prs)>>,
      FNMR |-> <<Cardinality(FalseNonMatch), Len(prs)>>,
      accuracy |-> <<Cardinality(Correct), Len(prs)>>]

\* ResultsGenerator.compute_metrics; pd.DataFrame([]) has no "label" column,
\* so df["label"] raises KeyError when nothing was added
ResultsGenerator_compute_metrics(prs) ==
  IF Len(prs) = 0
    THEN [status |-> "error", error |-> "KeyError"]
    ELSE
      LET InGroup(g) == LET Is(p) == p.group = g IN SelectSeq(prs, Is)
          InAug(a) == LET Is(p) == p.augmentation = a IN SelectSeq(prs, Is)
      IN [status |-> "ok",
          overall |-> PairBucket(prs),
          by_group |->
            [g \in {prs[i].group : i \in DOMAIN prs} |->
               PairBucket(InGroup(g))],
          by_augmentation |->
            [a \in {prs[i].augmentation : i \in DOMAIN prs} |->
               PairBucket(InAug(a))]]

\* ---------------------- face_bias_evaluator.py: FaceBiasEvaluator.run_evaluation
MaxImages == 1
MaxAugs == 1

FaceGroups == {"male", "female"}
AugNames == <<"flip", "rotation", "brightness", "blur", "occlusion",
              "noise", "shift">>
\* --augmentations flip rotation brightness
ScenarioAugs == SubSeq(AugNames, 1, 3)

\* what get_embedding(aug_img) gives for one augmentation: an embedding at
\* cosine similarity sim to the original's, an all-zero one, or an exception
AugOutcomes ==
  {[kind |-> "ok", sim |-> x] : x \in {0, ProbScale}} \cup
  {[kind |-> "zero", sim |-> 0], [kind |-> "raise", sim |-> 0]}

\* apply_augmentation(img, "original") returns img, whose embedding is orig_emb
SelfOutcome == [kind |-> "ok", sim |-> ProbScale]

Image == [group : FaceGroups, readable : BOOLEAN, embeds : BOOLEAN]

\* for aug in ["original"] + self.augmentations, from position j on
RECURSIVE AugLoop(_, _, _, _, _, _)
AugLoop(prs, group, augs, outs, theta, j) ==
  IF j > Len(augs) THEN [pairs |-> prs, raised |-> FALSE]
  ELSE IF outs[j].kind = "raise" THEN [pairs |-> prs, raised |-> TRUE]
  ELSE IF outs[j].kind = "zero"
    THEN AugLoop(prs, group, augs, outs, theta, j + 1)
    ELSE AugLoop(add(prs, group, augs[j], 1, outs[j].sim, theta),
                 group, augs, outs, theta, j + 1)

InitAug ==
  /\ threshold \in Thresholds
  /\ \E n \in 0..MaxImages : images \in [1..n -> Image]
  /\ augmentations \in
       {SubSeq(AugNames, 1, k) : k \in 0..MaxAugs} \cup {ScenarioAugs}
  /\ aug_pos = [img |-> 0, processed_images |-> 0]
  /\ aug_report = NoReport
  /\ pairs = <<>>
  /\ pc = "aug_loop"
  /\ inputs_valid = TRUE
  /\ columns_ok = TRUE
  /\ tags = <<>>
  /\ labels = <<>>
  /\ probability = <<>>
  /\ prediction = <<>>
  /\ overall_metrics = NoOverall
  /\ group_metrics = EmptyMetrics
  /\ fairness_metrics = EmptyMetrics
  /\ flags = <<>>
  /\ recommendations = <<>>
  /\ summary_json = NoSummary
  /\ result = Pending
  /\ group_counts = EmptyMetrics
  /\ similarity = 0
  /\ approval_ci = EmptyMetrics
  /\ files = {}
  /\ flag_config = DefaultConfig
  /\ OthersIdle
  /\ TwiceIdle
  /\ FaceIdle

AugRest == <<threshold, inputs_valid, columns_ok, tags, labels, similarity,
             flag_config, twice, face, load, mload, conc, approval_ci,
             files, probability,
             prediction, overall_metrics, group_metrics, fairness_metrics,
             flags, recommendations, summary_json, result, group_counts>>

\* the body of "for fname in image_files" for the next image
AugImage ==
  /\ pc = "aug_loop"
  /\ aug_pos.img < Len(images)
  /\ LET k == aug_pos.img + 1
         im == images[k]
     IN IF ~im.readable \/ ~im.embeds
          THEN /\ aug_pos' = [aug_pos EXCEPT !.img = k]
               /\ UNCHANGED pairs
          ELSE \E outs \in [1..Len(augmentations) -> AugOutcomes] :
                 LET run == AugLoop(pairs, im.group,
                                    <<"original">> \o augmentations,
                                    <<SelfOutcome>> \o outs, threshold, 1)
                 IN /\ pairs' = run.pairs
                    /\ aug_pos' =
                         [img |-> k,
                          processed_images |->
                            IF run.raised THEN aug_pos.processed_images
                            ELSE aug_pos.processed_images + 1]
  /\ UNCHANGED <<AugRest, images, augmentations, aug_report, pc>>

\* after the loops: ValueError when nothing was processed, else the report
AugFinish ==
  /\ pc = "aug_loop"
  /\ aug_pos.img = Len(images)
  /\ aug_report' =
       IF aug_pos.processed_images = 0
         THEN [status |-> "error", error |-> "No valid images were processed"]
         ELSE
           LET report == ResultsGenerator_compute_metrics(pairs)
               fmr(g) == IF g \in DOMAIN report.by_group
                           THEN report.by_group[g].FMR ELSE Zero
           IN IF report.status = "error" THEN report
              ELSE [status |-> "ok",
                    accuracy |-> report.overall.accuracy,
                    bias |-> RSub(RMax2(fmr("male"), fmr("female")),
                                  IF RLe(fmr("male"), fmr("female"))
                                    THEN fmr("male") ELSE fmr("female")),
                    detailed_metrics |-> report]
  /\ pc' = "aug_done"
  /\ UNCHANGED <<AugRest, images, augmentations, aug_pos, pairs>>

NextAug == AugImage \/ AugFinish

SpecAug == InitAug /\ [][NextAug]_vars

\* --------------- face_bias_evaluator.py: ResultsGenerator used on its own
\* a caller records scored pairs with add(), then asks for compute_metrics()
MaxPairs == 2

InitResults ==
  /\ threshold \in Thresholds
  /\ pairs = <<>>
  /\ aug_report = NoReport
  /\ pc = "res_open"
  /\ images = <<>>
  /\ augmentations = <<>>
  /\ aug_pos = [img |-> 0, processed_images |-> 0]
  /\ inputs_valid = TRUE
  /\ columns_ok = TRUE
  /\ tags = <<>>
  /\ labels = <<>>
  /\ probability = <<>>
  /\ prediction = <<>>
  /\ overall_metrics = NoOverall
  /\ group_metrics = EmptyMetrics
  /\ fairness_metrics = EmptyMetrics
  /\ flags = <<>>
  /\ recommendations = <<>>
  /\ summary_json = NoSummary
  /\ result = Pending
  /\ group_counts = EmptyMetrics
  /\ similarity = 0
  /\ approval_ci = EmptyMetrics
  /\ files = {}
  /\ flag_config = DefaultConfig
  /\ OthersIdle
  /\ TwiceIdle
  /\ FaceIdle

ResAdd ==
  /\ pc = "res_open"
  /\ Len(pairs) < MaxPairs
  /\ \E group \in FaceGroups, aug \in {"original", AugNames[1]},
        label \in {0, 1}, sim \in ProbVals :
       pairs' = add(pairs, group, aug, label, sim, threshold)
  /\ UNCHANGED <<AugRest, images, augmentations, aug_pos, aug_report, pc>>

ResCompute ==
  /\ pc = "res_open"
  /\ aug_report' = ResultsGenerator_compute_metrics(pairs)
  /\ pc' = "res_done"
  /\ UNCHANGED <<AugRest, images, augmentations, aug_pos, pairs>>

NextResults == ResAdd \/ ResCompute

SpecResults == InitResults /\ [][NextResults]_vars

\* ------------------------------ face-recognition-bias.py: BiasEvaluator
MaxRows == 3
ScenarioIdentities == 50
ImpostorCap == 1000

Identities == 1..2
Regions == {"north", "south"}
\* two unit embeddings: cosine similarity 1.0 when equal, 0.0 when orthogonal
Embeddings == {0, 1}
EmbeddingRow == [identity : Identities, group : Regions, embedding : Embeddings]

\* ScenarioIdentities identities with 2 images each, in two regions
ScenarioTable ==
  [i \in 1..(2 * ScenarioIdentities) |->
     [identity |-> (i + 1) \div 2,
      group |-> IF ((i + 1) \div 2) % 2 = 0 THEN "north" ELSE "south",
      embedding |-> i % 2]]

compute_similarities(e1, e2) == IF e1 = e2 THEN ProbScale ELSE 0

RowIndex(df) == [i \in 1..Len(df) |-> i]

\* self.embeddings_df["identity"].unique(): first occurrences, in row order
unique_identities(df) ==
  LET First(i) == \A j \in 1..(i - 1) : df[j].identity # df[i].identity
      firsts == SelectSeq(RowIndex(df), First)
  IN [x \in 1..Len(firsts) |-> df[firsts[x]].identity]

unique_groups(df) ==
  LET First(i) == \A j \in 1..(i - 1) : df[j].group # df[i].group
      firsts == SelectSeq(RowIndex(df), First)
  IN [x \in 1..Len(firsts) |-> df[firsts[x]].group]

RECURSIVE Flatten(_)
Flatten(ss) == IF ss = <<>> THEN <<>> ELSE Head(ss) \o Flatten(Tail(ss))

\* for i in rows: for j in rows: if i < j: pairs.append((i, j, 1))
genuine_pairs(df, identity) ==
  LET Same(i) == df[i].identity = identity
      rows == SelectSeq(RowIndex(df), Same)
      After(i) == LET Later(j) == i < j IN SelectSeq(rows, Later)
  IN IF Len(rows) > 1
       THEN Flatten([a \in 1..Len(rows) |->
                      [b \in 1..Len(After(rows[a])) |->
                         <<rows[a], After(rows[a])[b], 1>>]])
       ELSE <<>>

\* if impostor_count >= 1000: break
CapReachedLate(count) == count > ImpostorCap

CapReached(count) == count >= ImpostorCap

\* the inner impostor loop of row i over its candidate rows: every candidate
\* is appended and counted until the count reaches the cap (inner break)
impostor_inner(prs, count, i, cand) ==
  LET Stops(x) == CapReached(count + x)
      taken == IF \E x \in 1..Len(cand) : Stops(x)
                 THEN CHOOSE x \in 1..Len(cand) :
                        Stops(x) /\ \A y \in 1..(x - 1) : ~Stops(y)
                 ELSE Len(cand)
  IN [pairs |-> prs \o [x \in 1..taken |-> <<i, cand[x], 0>>],
      count |-> count + taken]

impostor_candidates_unordered(df, i) ==
  LET Other(j) == i # j /\ df[i].identity # df[j].identity
  IN SelectSeq(RowIndex(df), Other)

impostor_candidates(df, i) ==
  LET Other(j) == i < j /\ df[i].identity # df[j].identity
  IN SelectSeq(RowIndex(df), Other)

\* include = True for group None, else (g1 == group or g2 == group)
Included(prs, df, group) ==
  LET Include(p) == \/ group = NULL
                    \/ df[p[1]].group = group
                    \/ df[p[2]].group = group
  IN SelectSeq(prs, Include)

Max1(n) == IF n > 1 THEN n ELSE 1

\* BiasEvaluator.compute_metrics(pairs, group)
BiasEvaluator_compute_metrics(prs, df, theta, group) ==
  LET inc == Included(prs, df, group)
      sim(x) == compute_similarities(df[inc[x][1]].embedding,
                                     df[inc[x][2]].embedding)
      pred(x) == IF sim(x) >= theta THEN 1 ELSE 0
      genuine == {x \in DOMAIN inc : inc[x][3] = 1}
      impostor == {x \in DOMAIN inc : inc[x][3] = 0}
  IN IF Len(inc) = 0
       THEN [FMR |-> Zero, FNMR |-> Zero, accuracy |-> Zero]
       ELSE [FMR |-> <<Cardinality({x \in impostor : pred(x) = 1}),
                       Max1(Cardinality(impostor))>>,
             FNMR |-> <<Cardinality({x \in genuine : pred(x) = 0}),
                        Max1(Cardinality(genuine))>>,
             accuracy |-> <<Cardinality({x \in DOMAIN inc :
                                           inc[x][3] = pred(x)}),
                            Len(inc)>>]

\* ResultsGenerator.generate_report: overall carries no "threshold" key, so
\* threshold_used is the default 0.5
generate_report(overall, by_region) ==
  [status |-> "ok", overall |-> overall, by_region |-> by_region,
   metadata |-> [threshold_used |-> <<1, 2>>,
                 total_groups |-> Cardinality(DOMAIN by_region)]]

InitPairs ==
  /\ threshold \in Thresholds
  /\ \/ \E n \in 1..MaxRows : embeddings_df \in [1..n -> EmbeddingRow]
     \/ embeddings_df = ScenarioTable
  /\ pair_list = <<>>
  /\ gp = [phase |-> "genuine", k |-> 0, count |-> 0]
  /\ face_report = NoReport
  /\ pc = "face_pairs"
  /\ inputs_valid = TRUE
  /\ columns_ok = TRUE
  /\ tags = <<>>
  /\ labels = <<>>
  /\ probability = <<>>
  /\ prediction = <<>>
  /\ overall_metrics = NoOverall
  /\ group_metrics = EmptyMetrics
  /\ fairness_metrics = EmptyMetrics
  /\ flags = <<>>
  /\ recommendations = <<>>
  /\ summary_json = NoSummary
  /\ result = Pending
  /\ group_counts = EmptyMetrics
  /\ similarity = 0
  /\ pairs = <<>>
  /\ approval_ci = EmptyMetrics
  /\ files = {}
  /\ flag_config = DefaultConfig
  /\ OthersIdle
  /\ TwiceIdle
  /\ AugIdle

PairsRest == <<threshold, inputs_valid, columns_ok, tags, labels, similarity,
               flag_config, twice, augm, load, mload, conc,
               approval_ci, files, probability,
               prediction, overall_metrics, group_metrics, fairness_metrics,
               flags, recommendations, summary_json, result, group_counts,
               pairs, embeddings_df>>

\* one pass of "for identity in identities", or the end of that loop
GenuineStep ==
  /\ pc = "face_pairs"
  /\ gp.phase = "genuine"
  /\ LET identities == unique_identities(embeddings_df) IN
     IF gp.k = Len(identities)
       THEN /\ gp' = [phase |-> "impostor", k |-> 0, count |-> 0]
            /\ UNCHANGED pair_list
       ELSE /\ pair_list' =
                 pair_list \o genuine_pairs(embeddings_df, identities[gp.k + 1])
            /\ gp' = [gp EXCEPT !.k = gp.k + 1]
  /\ UNCHANGED <<PairsRest, face_report, pc>>

\* one pass of the outer impostor loop "for i, r1 in iterrows()", or its end
ImpostorStep ==
  /\ pc = "face_pairs"
  /\ gp.phase = "impostor"
  /\ IF gp.k = Len(embeddings_df) \/ CapReached(gp.count)
       THEN /\ gp' = [gp EXCEPT !.phase = "done"]
            /\ UNCHANGED pair_list
       ELSE LET i == gp.k + 1
                run == impostor_inner(pair_list, gp.count, i,
                                      impostor_candidates(embeddings_df, i))
            IN /\ pair_list' = run.pairs
               /\ gp' = [gp EXCEPT !.k = i, !.count = run.count]
  /\ UNCHANGED <<PairsRest, face_report, pc>>

\* FaceBiasEvaluator.evaluate_bias after generate_pairs, then generate_report.
\* compute_fairness_metrics (fairlearn, or its two-group fallback) fills the
\* report's "fairness" entry and touches nothing else; it is left out.
evaluate_bias ==
  /\ pc = "face_pairs"
  /\ gp.phase = "done"
  /\ LET groups == unique_groups(embeddings_df)
         overall == BiasEvaluator_compute_metrics(pair_list, embeddings_df,
                                                  threshold, NULL)
         by_region ==
           [g \in {groups[x] : x \in DOMAIN groups} |->
              BiasEvaluator_compute_metrics(pair_list, embeddings_df,
                                            threshold, g)]
     IN face_report' = generate_report(overall, by_region)
  /\ pc' = "face_done"
  /\ UNCHANGED <<PairsRest, pair_list, gp>>

NextPairs == GenuineStep \/ ImpostorStep \/ evaluate_bias

SpecPairs == InitPairs /\ [][NextPairs]_vars

\* ------- face-recognition-bias.py: load_dataset and extract_embeddings
MaxFiles == 2
SamplePersons == 2
SampleImages == 2
SampleGroups == <<"north", "south", "northeast", "west">>

\* an image file under dataset/<group>/<identity>/: cv2 can read it or not,
\* the model returns an embedding for it or raises
ImageFile == [identity : Identities, group : Regions,
              readable : BOOLEAN, extractable : BOOLEAN]

\* _create_sample_dataset: paths sample_<g>_<pid>_<img>.jpg that name no
\* file, so cv2.imread returns None for every row
create_sample_dataset ==
  [i \in 1..(Len(SampleGroups) * SamplePersons * SampleImages) |->
     [identity |-> ((i - 1) \div SampleImages) + 1,
      group |-> SampleGroups[((i - 1) \div (SamplePersons * SampleImages)) + 1],
      readable |-> FALSE,
      extractable |-> TRUE]]

\* np.random.rand embeddings of n rows: every assignment for a small table,
\* constant and alternating ones for the sample table
RandomDraws(n) ==
  IF n <= MaxFiles
    THEN [1..n -> Embeddings]
    ELSE {[i \in 1..n |-> (i + e) % 2] : e \in Embeddings} \cup
         {[i \in 1..n |-> e] : e \in Embeddings}

\* the embedding a working model gives a readable image: one per identity
ModelEmbedding(file) == file.identity % 2

InitLoad ==
  /\ threshold = 1
  /\ \E n \in 0..MaxFiles : dataset \in [1..n -> ImageFile]
  /\ substituted = NoSubstitutes
  /\ embeddings_df = <<>>
  /\ pair_list = <<>>
  /\ gp = NoPosition
  /\ face_report = NoReport
  /\ pc = "face_load"
  /\ inputs_valid = TRUE
  /\ columns_ok = TRUE
  /\ tags = <<>>
  /\ labels = <<>>
  /\ probability = <<>>
  /\ prediction = <<>>
  /\ overall_metrics = NoOverall
  /\ group_metrics = EmptyMetrics
  /\ fairness_metrics = EmptyMetrics
  /\ flags = <<>>
  /\ recommendations = <<>>
  /\ summary_json = NoSummary
  /\ result = Pending
  /\ group_counts = EmptyMetrics
  /\ similarity = 0
  /\ pairs = <<>>
  /\ approval_ci = EmptyMetrics
  /\ files = {}
  /\ flag_config = DefaultConfig
  /\ TwiceIdle
  /\ AugIdle
  /\ ModelIdle
  /\ ConcIdle

LoadRest == <<threshold, inputs_valid, columns_ok, tags, labels, similarity,
              flag_config, twice, augm, mload, conc, approval_ci, files,
              probability, prediction, overall_metrics, group_metrics,
              fairness_metrics, flags, recommendations, summary_json, result,
              group_counts, pairs>>

\* FaceBiasEvaluator.load_dataset: "No images found. Using sample dataset."
load_dataset ==
  /\ pc = "face_load"
  /\ IF Len(dataset) = 0
       THEN /\ dataset' = create_sample_dataset
            /\ substituted' = [substituted EXCEPT !.sample = TRUE]
       ELSE UNCHANGED <<dataset, substituted>>
  /\ pc' = "face_extract"
  /\ UNCHANGED <<LoadRest, face>>

\* FaceBiasEvaluator.extract_embeddings: preprocess_image returns a random
\* tensor when the image cannot be read, extract_embedding a random
\* embedding when the model raises; neither raises to the caller
extract_embeddings ==
  /\ pc = "face_extract"
  /\ \E draw \in RandomDraws(Len(dataset)) :
       embeddings_df' =
         [i \in 1..Len(dataset) |->
            [identity |-> dataset[i].identity,
             group |-> dataset[i].group,
             embedding |->
               IF dataset[i].readable /\ dataset[i].extractable
                 THEN ModelEmbedding(dataset[i]) ELSE draw[i]]]
  /\ substituted' =
       [substituted EXCEPT !.rows =
          {i \in 1..Len(dataset) :
             ~dataset[i].readable \/ ~dataset[i].extractable}]
  /\ gp' = [phase |-> "genuine", k |-> 0, count |-> 0]
  /\ pc' = "face_pairs"
  /\ UNCHANGED <<LoadRest, dataset, pair_list, face_report>>

NextLoad == load_dataset \/ extract_embeddings \/ NextPairs

SpecLoad == InitLoad /\ [][NextLoad]_vars

\* ------------- two concurrent MLFairnessEvaluator.run_evaluation calls
\* Each call has its own model, CSV and params dict; values computed from
\* the inputs of call r are written as the set {r}.  The calls meet in the
\* file system and in matplotlib.pyplot's module-level figure stack.
RunIds == 1..2
OptionalParams == {"positive_label", "id_column", "bucket_definitions"}
DefaultOutputDir == "fairness_results"
OwnOutputDir(r) == IF r = 1 THEN "out_1" ELSE "out_2"
OutputDirs == {DefaultOutputDir} \cup {OwnOutputDir(r) : r \in RunIds}

\* a file of a directory is a pair <<name, content>>; writing replaces it
write_file(dir, name, content) ==
  {f \in dir : f[1] # name} \cup {<<name, content>>}

InitConc ==
  /\ runs \in [RunIds -> [pc : {"start"},
                           output_dir : OutputDirs,
                           given : SUBSET OptionalParams,
                           params : {{}},
                           summary : {{}},
                           zip : {{}}]]
  /\ \A r \in RunIds :
       runs[r].output_dir \in {DefaultOutputDir, OwnOutputDir(r)}
  /\ shared = [disk |-> [d \in OutputDirs |-> {}], figures |-> <<>>]
  /\ pc = "conc"
  /\ threshold = 1
  /\ inputs_valid = TRUE
  /\ columns_ok = TRUE
  /\ tags = <<>>
  /\ labels = <<>>
  /\ probability = <<>>
  /\ prediction = <<>>
  /\ overall_metrics = NoOverall
  /\ group_metrics = EmptyMetrics
  /\ fairness_metrics = EmptyMetrics
  /\ flags = <<>>
  /\ recommendations = <<>>
  /\ summary_json = NoSummary
  /\ result = Pending
  /\ group_counts = EmptyMetrics
  /\ similarity = 0
  /\ pairs = <<>>
  /\ approval_ci = EmptyMetrics
  /\ files = {}
  /\ flag_config = DefaultConfig
  /\ TwiceIdle
  /\ FaceIdle
  /\ AugIdle
  /\ LoadIdle
  /\ ModelIdle

ConcRest == <<threshold, inputs_valid, columns_ok, tags, labels, similarity,
              flag_config, twice, face, augm, load, mload, approval_ci,
              files, probability, prediction, overall_metrics, group_metrics,
              fairness_metrics, flags, recommendations, summary_json, result,
              group_counts, pairs, pc>>

\* validate_inputs: validate_params does params.setdefault(...) on the dict
\* the caller passed and returns that same dict
ConcValidate(r) ==
  /\ runs[r].pc = "start"
  /\ runs' = [runs EXCEPT ![r].pc = "validated",
                          ![r].params = runs[r].given \cup OptionalParams]
  /\ UNCHANGED <<ConcRest, shared>>

\* load_and_prepare_data, run_inference, evaluate_fairness: locals only
ConcEvaluate(r) ==
  /\ runs[r].pc = "validated"
  /\ runs' = [runs EXCEPT ![r].pc = "evaluated", ![r].summary = {r}]
  /\ UNCHANGED <<ConcRest, shared>>

\* plt.figure(): a new figure becomes pyplot's current figure
ConcFigure(r) ==
  /\ runs[r].pc = "evaluated"
  /\ shared' = [shared EXCEPT !.figures = Append(shared.figures, {})]
  /\ runs' = [runs EXCEPT ![r].pc = "figure"]
  /\ UNCHANGED ConcRest

\* plt.bar(groups, approval_rates): drawn on the current figure, whichever
\* call opened it (a new one when none is open)
ConcDraw(r) ==
  /\ runs[r].pc = "figure"
  /\ LET n == Len(shared.figures) IN
     shared' =
       [shared EXCEPT !.figures =
          IF n = 0 THEN <<{r}>>
          ELSE [shared.figures EXCEPT ![n] = shared.figures[n] \cup {r}]]
  /\ runs' = [runs EXCEPT ![r].pc = "drawn"]
  /\ UNCHANGED ConcRest

\* plt.savefig(plots/approval_rate_by_group.png); plt.close(): the current
\* figure is saved and closed, the one opened before it becomes current
ConcSave(r) ==
  /\ runs[r].pc = "drawn"
  /\ LET n == Len(shared.figures)
         current == IF n = 0 THEN {} ELSE shared.figures[n]
         dir == runs[r].output_dir
     IN shared' =
          [disk |-> [shared.disk EXCEPT ![dir] =
                       write_file(shared.disk[dir],
                                  "approval_rate_by_group.png", current)],
           figures |-> IF n = 0 THEN <<>>
                       ELSE SubSeq(shared.figures, 1, n - 1)]
  /\ runs' = [runs EXCEPT ![r].pc = "visualized"]
  /\ UNCHANGED ConcRest

\* generate_reports up to generate_recommendations_txt: this call's tables
\* are written under its output_dir
ConcWrite(r) ==
  /\ runs[r].pc = "visualized"
  /\ LET dir == runs[r].output_dir
         d1 == write_file(shared.disk[dir], ReportFiles[1], {r})
         d2 == write_file(d1, ReportFiles[2], {r})
         d3 == write_file(d2, ReportFiles[3], {r})
         d4 == write_file(d3, ReportFiles[4], {r})
     IN shared' = [shared EXCEPT !.disk[dir] = d4]
  /\ runs' = [runs EXCEPT ![r].pc = "written"]
  /\ UNCHANGED ConcRest

\* create_report_zip: os.walk(output_dir) puts every file found into the zip
ConcZip(r) ==
  /\ runs[r].pc = "written"
  /\ runs' = [runs EXCEPT ![r].pc = "done",
                          ![r].zip = shared.disk[runs[r].output_dir]]
  /\ UNCHANGED <<ConcRest, shared>>

NextConc ==
  \/ \E r \in RunIds : ConcValidate(r)
  \/ \E r \in RunIds : ConcEvaluate(r)
  \/ \E r \in RunIds : ConcFigure(r)
  \/ \E r \in RunIds : ConcDraw(r)
  \/ \E r \in RunIds : ConcSave(r)
  \/ \E r \in RunIds : ConcWrite(r)
  \/ \E r \in RunIds : ConcZip(r)

SpecConc == InitConc /\ [][NextConc]_vars

\* ------------------------------------------- ModelWrapper._load_model
ALLOWED_MODEL_EXTENSIONS == {".pt", ".pth", ".onnx", ".h5", ".pkl", ".joblib"}
ModelExtensions == ALLOWED_MODEL_EXTENSIONS \cup {".txt"}
\* what the ALLOW_UNTRUSTED_MODELS variable may hold
AllowSettings == {"unset", "0", "1", "true"}
\* what a .pt/.pth file holds
TorchKinds == {"scripted", "module", "state_dict", "corrupt"}

\* joblib_ok, pickle_ok: whether joblib.load / pickle.load of the file
\* return an object; native_ok: whether the ONNX / Keras loader does
ModelFile == [ext : ModelExtensions, joblib_ok : BOOLEAN,
              pickle_ok : BOOLEAN, native_ok : BOOLEAN, torch : TorchKinds]
Environment == [ALLOW_UNTRUSTED_MODELS : AllowSettings,
                JOBLIB_AVAILABLE : BOOLEAN, ONNX_AVAILABLE : BOOLEAN,
                TORCH_AVAILABLE : BOOLEAN, TF_AVAILABLE : BOOLEAN]
NotLoaded == [status |-> "none", type |-> "none", calls |-> <<>>]

model_type_of(ext) ==
  IF ext \in {".pkl", ".joblib"} THEN "sklearn"
  ELSE IF ext = ".onnx" THEN "onnx"
  ELSE IF ext \in {".pt", ".pth"} THEN "pytorch"
  ELSE IF ext = ".h5" THEN "tensorflow"
  ELSE "unsupported"

InitModel ==
  /\ model_file \in ModelFile
  /\ environment \in Environment
  /\ model = NotLoaded
  /\ pc = "model_start"
  /\ threshold = 1
  /\ inputs_valid = TRUE
  /\ columns_ok = TRUE
  /\ tags = <<>>
  /\ labels = <<>>
  /\ probability = <<>>
  /\ prediction = <<>>
  /\ overall_metrics = NoOverall
  /\ group_metrics = EmptyMetrics
  /\ fairness_metrics = EmptyMetrics
  /\ flags = <<>>
  /\ recommendations = <<>>
  /\ summary_json = NoSummary
  /\ result = Pending
  /\ group_counts = EmptyMetrics
  /\ similarity = 0
  /\ pairs = <<>>
  /\ approval_ci = EmptyMetrics
  /\ files = {}
  /\ flag_config = DefaultConfig
  /\ TwiceIdle
  /\ FaceIdle
  /\ AugIdle
  /\ LoadIdle
  /\ ConcIdle

ModelRest == <<threshold, inputs_valid, columns_ok, tags, labels, similarity,
               flag_config, twice, face, augm, load, conc, approval_ci,
               files, probability, prediction, overall_metrics,
               group_metrics, fairness_metrics, flags, recommendations,
               summary_json, result, group_counts, pairs, model_file,
               environment>>

\* UploadHandler.validate_model_file: the model type from the extension,
\* ValidationError when the extension or its library is not available
validate_model_file ==
  /\ pc = "model_start"
  /\ LET type == model_type_of(model_file.ext)
         refused ==
           \/ type = "unsupported"
           \/ type = "onnx" /\ ~environment.ONNX_AVAILABLE
           \/ type = "pytorch" /\ ~environment.TORCH_AVAILABLE
           \/ type = "tensorflow" /\ ~environment.TF_AVAILABLE
     IN IF refused
        THEN /\ model' = [status |-> "ValidationError", type |-> type,
                          calls |-> <<>>]
             /\ pc' = "model_done"
        ELSE /\ model' = [model EXCEPT !.type = type]
             /\ pc' = "model_validated"
  /\ UNCHANGED ModelRest

\* the sklearn branch of _load_model: joblib.load first whenever joblib is
\* installed, the allow_untrusted test only after it failed or is missing
load_sklearn ==
  LET allow_untrusted == environment.ALLOW_UNTRUSTED_MODELS = "1"
      tried == IF environment.JOBLIB_AVAILABLE THEN <<"joblib.load">>
               ELSE <<>>
  IN IF environment.JOBLIB_AVAILABLE /\ model_file.joblib_ok
     THEN [status |-> "loaded", type |-> "sklearn", calls |-> tried]
     ELSE IF ~allow_untrusted
     THEN [status |-> "ModelLoadingError", type |-> "sklearn",
           calls |-> tried]
     ELSE [status |-> IF model_file.pickle_ok THEN "loaded"
                      ELSE "ModelLoadingError",
           type |-> "sklearn", calls |-> Append(tried, "pickle.load")]

\* the other branches of _load_model
load_native ==
  IF model.type = "pytorch"
  THEN IF model_file.torch = "scripted"
       THEN [status |-> "loaded", type |-> "pytorch",
             calls |-> <<"torch.jit.load">>]
       ELSE [status |-> IF model_file.torch = "module" THEN "loaded"
                        ELSE "ModelLoadingError",
             type |-> "pytorch",
             calls |-> <<"torch.jit.load", "torch.load">>]
  ELSE [status |-> IF model_file.native_ok THEN "loaded"
                   ELSE "ModelLoadingError",
        type |-> model.type,
        calls |-> IF model.type = "onnx" THEN <<"ort.InferenceSession">>
                  ELSE <<"tf.keras.models.load_model">>]

load_model ==
  /\ pc = "model_validated"
  /\ model' = IF model.type = "sklearn" THEN load_sklearn ELSE load_native
  /\ pc' = "model_done"
  /\ UNCHANGED ModelRest

NextModel ==
  \/ validate_model_file
  \/ load_model

SpecModel == InitModel /\ [][NextModel]_vars

\* ======================================================================
\* Properties
\* ======================================================================
Evaluated == pc \in {"evaluated", "visualized", "reported", "done"}
FairEvaluated == pc \in {"fair_evaluated", "fair_reported"}
AllTagged == \A i \in Rows : tags[i] # NULL
GroupCount == Cardinality(DOMAIN group_metrics)

IsZeroRate(r) == r[2] > 0 /\ r[1] = 0
IsMaxOf(m, S) == m \in S /\ \A x \in S : RLe(x, m)
IsMinOf(m, S) == m \in S /\ \A x \in S : RLe(m, x)
\* v is (largest element of S) - (smallest element of S)
SpreadIs(v, S) ==
  \E hi \in S, lo \in S :
    IsMaxOf(hi, S) /\ IsMinOf(lo, S) /\ REq(v, RSub(hi, lo))

ApprovalRates == {group_metrics[g].approval_rate : g \in DOMAIN group_metrics}
TPRs == {group_metrics[g].tpr : g \in DOMAIN group_metrics}
FPRs == {group_metrics[g].fpr : g \in DOMAIN group_metrics}

\* C1: when every record carries a group tag, each group's count is the
\* number of records with that tag, the group counts sum to total_records,
\* and the per-group TP, FP, TN, FN each sum to the count over the whole
\* table (prediction column against the label column).
C1_ExactPartition ==
  (Evaluated /\ AllTagged) =>
    /\ DOMAIN group_metrics = {tags[i] : i \in Rows}
    /\ \A g \in DOMAIN group_metrics :
         group_metrics[g].count = Cardinality({i \in Rows : tags[i] = g})
    /\ SumOver(DOMAIN group_metrics,
               [g \in DOMAIN group_metrics |-> group_metrics[g].count])
         = overall_metrics.total_records
    /\ overall_metrics.total_records = Len(tags)
    /\ SumOver(DOMAIN group_counts,
               [g \in DOMAIN group_counts |-> group_counts[g].tp])
         = Cardinality({i \in Rows : prediction[i] = 1 /\ labels[i] = 1})
    /\ SumOver(DOMAIN group_counts,
               [g \in DOMAIN group_counts |-> group_counts[g].fp])
         = Cardinality({i \in Rows : prediction[i] = 1 /\ labels[i] = 0})
    /\ SumOver(DOMAIN group_counts,
               [g \in DOMAIN group_counts |-> group_counts[g].tn])
         = Cardinality({i \in Rows : prediction[i] = 0 /\ labels[i] = 0})
    /\ SumOver(DOMAIN group_counts,
               [g \in DOMAIN group_counts |-> group_counts[g].fn])
         = Cardinality({i \in Rows : prediction[i] = 0 /\ labels[i] = 1})

\* two groups, every row tagged, at least one true positive
C1_Witness ==
  /\ pc = "evaluated"
  /\ AllTagged
  /\ Len(tags) = MaxRecords
  /\ GroupCount = 2
  /\ \E g \in DOMAIN group_counts : group_counts[g].tp >= 1

\* C2: with 2 or more groups the five disparity metrics are the spread of
\* the approval rates, min/max of the approval rates (0 when the max is 0),
\* the spread of the TPRs, the larger of the TPR spread and the FPR spread,
\* and disparate_impact = demographic_parity_ratio.
C2_DisparityFormulas ==
  (FairEvaluated /\ GroupCount >= 2) =>
    LET fm == fairness_metrics IN
    /\ SpreadIs(fm.demographic_parity_difference, ApprovalRates)
    /\ \E hi \in ApprovalRates, lo \in ApprovalRates :
         /\ IsMaxOf(hi, ApprovalRates)
         /\ IsMinOf(lo, ApprovalRates)
         /\ IF hi[1] = 0
              THEN IsZeroRate(fm.demographic_parity_ratio)
              ELSE fm.demographic_parity_ratio[1] * lo[2] * hi[1]
                     = lo[1] * hi[2] * fm.demographic_parity_ratio[2]
    /\ SpreadIs(fm.equal_opportunity_difference, TPRs)
    /\ \E dt \in {fm.equal_opportunity_difference},
          df \in {RSub(hi, lo) : hi \in FPRs, lo \in FPRs} :
         /\ SpreadIs(dt, TPRs)
         /\ SpreadIs(df, FPRs)
         /\ RLe(dt, fm.equalized_odds_difference)
         /\ RLe(df, fm.equalized_odds_difference)
         /\ \/ REq(fm.equalized_odds_difference, dt)
            \/ REq(fm.equalized_odds_difference, df)
    /\ REq(fm.disparate_impact, fm.demographic_parity_ratio)

\* three groups whose TPR spread and FPR spread are both positive and differ
C2_Witness ==
  /\ pc = "fair_evaluated"
  /\ GroupCount = 3
  /\ fairness_metrics.equal_opportunity_difference[1] > 0
  /\ RLt(fairness_metrics.equal_opportunity_difference,
         fairness_metrics.equalized_odds_difference)
  /\ fairness_metrics.demographic_parity_ratio[1] > 0

\* C3: identify_flags emits one flag per rule whose strict condition holds
\* and none otherwise, in the order disparate impact, demographic parity,
\* equal opportunity, equalized odds; each message cites the observed value
\* (to three decimals); groups A (40 of 80) and B (4 of 20) give disparate
\* impact 0.4 and the disparate-impact flag citing 0.400.
RuleOrder == <<"disparate_impact", "demographic_parity_difference",
               "equal_opportunity_difference", "equalized_odds_difference">>

RuleHolds(k) ==
  LET v == fairness_metrics[RuleOrder[k]] IN
  IF k = 1 THEN 5 * v[1] < 4 * v[2] ELSE 10 * v[1] > v[2]

RulePos(name) == CHOOSE k \in 1..4 : RuleOrder[k] = name

CitesValue(shown, v) ==
  LET e == 1000 * v[1] - shown * v[2] IN 2 * e <= v[2] /\ 0 - 2 * e <= v[2]

C3_FlagsByRule ==
  (FairEvaluated /\ DOMAIN fairness_metrics = MetricNames) =>
    /\ \A i \in DOMAIN flags : \E k \in 1..4 : flags[i].metric = RuleOrder[k]
    /\ \A k \in 1..4 :
         Cardinality({i \in DOMAIN flags : flags[i].metric = RuleOrder[k]})
           = IF RuleHolds(k) THEN 1 ELSE 0
    /\ \A i \in DOMAIN flags, j \in DOMAIN flags :
         i < j => RulePos(flags[i].metric) < RulePos(flags[j].metric)
    /\ \A i \in DOMAIN flags :
         CitesValue(flags[i].shown, fairness_metrics[flags[i].metric])
    /\ (group_counts = [g \in {"A", "B"} |->
                          IF g = "A" THEN ScenarioA ELSE ScenarioB]) =>
         /\ REq(fairness_metrics.disparate_impact, <<2, 5>>)
         /\ REq(fairness_metrics.demographic_parity_difference, <<3, 10>>)
         /\ Len(flags) >= 1
         /\ flags[1] = [metric |-> "disparate_impact", shown |-> 400]

\* the scenario of groups A and B, after identify_flags
C3_Witness ==
  /\ pc = "fair_evaluated"
  /\ group_counts = [g \in {"A", "B"} |->
                       IF g = "A" THEN ScenarioA ELSE ScenarioB]
  /\ Len(flags) >= 1

\* C4: the assessment is FAIL exactly when the flags list is non-empty and
\* PASS otherwise, in the written summary and in the returned result, and
\* the two assessments are the same.
C4_AssessmentIffFlags ==
  /\ pc \in {"reported", "done"} =>
       /\ summary_json.assessment \in {"FAIL", "PASS"}
       /\ summary_json.assessment = "FAIL" <=> Len(summary_json.flags) > 0
       /\ summary_json.flags = flags
  /\ (pc = "done" /\ result.status = "success") =>
       /\ result.assessment \in {"FAIL", "PASS"}
       /\ result.assessment = "FAIL" <=> Len(result.flags) > 0
       /\ result.assessment = summary_json.assessment
       /\ result.flags = summary_json.flags

\* a finished run whose report carries a flag
C4_Witness ==
  /\ pc = "done"
  /\ result.status = "success"
  /\ Len(result.flags) > 0
  /\ result.assessment = "FAIL"

\* C5: predicted label = 1 exactly when probability >= threshold; for a
\* threshold in [0,1] the confusion counts obtained by re-thresholding the
\* stored 0/1 prediction agree with that rule; a pair's predicted match is
\* 1 exactly when similarity >= threshold.
C5_InclusiveThreshold ==
  /\ pc \in {"th_predicted", "th_counted", "th_paired"} =>
       (prediction[1] = 1 <=> probability[1] >= threshold)
  /\ (pc \in {"th_counted", "th_paired"} /\ threshold \in 0..ProbScale) =>
       /\ group_counts["A"].tp + group_counts["A"].fp = 1
            <=> probability[1] >= threshold
       /\ group_counts["A"].tn + group_counts["A"].fn = 1
            <=> probability[1] < threshold
  /\ pc = "th_paired" =>
       (pairs[1].prediction = 1 <=> similarity >= threshold)

\* probability and similarity both exactly at a threshold inside (0,1]
C5_Witness ==
  /\ pc = "th_paired"
  /\ threshold \in 1..ProbScale
  /\ probability[1] = threshold
  /\ similarity = threshold
  /\ prediction[1] = 1
  /\ pairs[1].prediction = 1

\* C6: every per-group rate with a zero denominator is 0.0 (TPR and FNR
\* without positives, FPR and TNR without negatives, precision without
\* predicted positives, F1 when precision + recall = 0), and no metric of a
\* group is NaN.
C6_ZeroDenominator ==
  Evaluated =>
    \A g \in DOMAIN group_metrics :
      LET c == group_counts[g]
          m == group_metrics[g]
      IN /\ c.tp + c.fn = 0 => IsZeroRate(m.tpr) /\ IsZeroRate(m.fnr)
         /\ c.fp + c.tn = 0 => IsZeroRate(m.fpr) /\ IsZeroRate(m.tnr)
         /\ c.tp + c.fp = 0 => IsZeroRate(m.precision)
         /\ (m.precision[1] = 0 /\ m.recall[1] = 0) => IsZeroRate(m.f1_score)
         /\ \A r \in {m.tpr, m.fnr, m.fpr, m.tnr, m.precision, m.recall,
                      m.f1_score, m.approval_rate, m.accuracy} : ~IsNaN(r)

\* one group without positives and one group without negatives
C6_Witness ==
  /\ pc = "evaluated"
  /\ \E g \in DOMAIN group_counts :
       group_counts[g].tp + group_counts[g].fn = 0
  /\ \E g \in DOMAIN group_counts :
       /\ group_counts[g].fp + group_counts[g].tn = 0
       /\ group_counts[g].tp = 0

\* C7 as stated: with 2 or more groups the ratio lies in [0,1], and equal
\* approval rates (whatever the common rate, 0 included) give difference 0
\* and ratio 1.
AllRatesEqual == \A a \in ApprovalRates, b \in ApprovalRates : REq(a, b)

C7_EqualRatesRatioOne ==
  (FairEvaluated /\ GroupCount >= 2) =>
    /\ RLe(Zero, fairness_metrics.demographic_parity_ratio)
    /\ RLe(fairness_metrics.demographic_parity_ratio, One)
    /\ AllRatesEqual =>
         /\ IsZeroRate(fairness_metrics.demographic_parity_difference)
         /\ REq(fairness_metrics.demographic_parity_ratio, One)

\* C7 amended: with 2 or more groups the ratio lies in [0,1]; equal approval
\* rates give difference 0, and ratio 1 when the common rate is positive,
\* ratio 0.0 when the common rate is 0.
C7_EqualRatesRatio ==
  (FairEvaluated /\ GroupCount >= 2) =>
    /\ RLe(Zero, fairness_metrics.demographic_parity_ratio)
    /\ RLe(fairness_metrics.demographic_parity_ratio, One)
    /\ AllRatesEqual =>
         /\ IsZeroRate(fairness_metrics.demographic_parity_difference)
         /\ IF \E a \in ApprovalRates : a[1] > 0
              THEN REq(fairness_metrics.demographic_parity_ratio, One)
              ELSE IsZeroRate(fairness_metrics.demographic_parity_ratio)

\* three groups of different sizes with the same positive approval rate
C7_Witness ==
  /\ pc = "fair_evaluated"
  /\ GroupCount = 3
  /\ AllRatesEqual
  /\ \E a \in ApprovalRates : a[1] > 0 /\ a[1] < a[2]
  /\ \E g \in DOMAIN group_metrics, h \in DOMAIN group_metrics :
       group_metrics[g].count # group_metrics[h].count

\* C8: compute_fairness_metrics returns the empty result for fewer than 2
\* groups and all five disparity metrics for 2 or more.
C8_EmptyBelowTwoGroups ==
  FairEvaluated =>
    /\ GroupCount < 2 => DOMAIN fairness_metrics = {}
    /\ GroupCount >= 2 => DOMAIN fairness_metrics = MetricNames

\* a single group: the empty result
C8_Witness ==
  /\ pc = "fair_evaluated"
  /\ GroupCount = 1
  /\ DOMAIN fairness_metrics = {}

\* C9: an evaluation with a threshold outside [0,1] fails and produces no
\* metrics, flags or assessment.
C9_InvalidThresholdFails ==
  (threshold < 0 \/ threshold > ProbScale) =>
    /\ ~Evaluated
    /\ result.status # "success"

\* C10: a record with a null group tag makes the evaluation fail; it is
\* never left out of the per-group metrics while counted in the overall.
C10_NullGroupFails ==
  (\E i \in Rows : tags[i] = NULL) =>
    /\ result.status # "success"
    /\ Evaluated =>
         SumOver(DOMAIN group_metrics,
                 [g \in DOMAIN group_metrics |-> group_metrics[g].count])
           = overall_metrics.total_records


\* C11: for every group and thresholds threshold <= threshold2 applied to the
\* same scored records, the group's TPR and FPR at threshold2 are at most
\* its TPR and FPR at threshold.
C11_ThresholdMonotone ==
  pc = "two_done" =>
    /\ DOMAIN group_metrics2 = DOMAIN group_metrics
    /\ \A g \in DOMAIN group_metrics :
         /\ RLe(group_metrics2[g].tpr, group_metrics[g].tpr)
         /\ RLe(group_metrics2[g].fpr, group_metrics[g].fpr)

\* a stricter threshold lowered a group's TPR and another group's FPR
C11_Witness ==
  /\ pc = "two_done"
  /\ threshold < threshold2
  /\ \E g \in DOMAIN group_metrics :
       RLt(group_metrics2[g].tpr, group_metrics[g].tpr)
  /\ \E g \in DOMAIN group_metrics :
       RLt(group_metrics2[g].fpr, group_metrics[g].fpr)

\* C12 (as claimed, for FaceBiasEvaluator.run_evaluation of
\* face_bias_evaluator.py): every image whose embedding was extracted yields
\* exactly one pair per configured augmentation, all labelled genuine, and no
\* other pair is recorded.
Processable == {k \in DOMAIN images : images[k].readable /\ images[k].embeds}

C12_OnePairPerAugmentation ==
  pc = "aug_done" =>
    /\ Len(pairs) = Cardinality(Processable) * Len(augmentations)
    /\ \A i \in DOMAIN pairs :
         pairs[i].label = 1 /\ pairs[i].augmentation # "original"

\* C13: generate_pairs returns every unordered pair of rows of one identity
\* exactly once with label 1, plus exactly min(T, ImpostorCap) distinct pairs
\* of rows of different identities with label 0 (T = number of such pairs,
\* counted over the whole table, not per group); the loops terminate (every
\* loop pass lowers a natural-number measure of the passes left); the
\* table of ScenarioIdentities identities with 2 images each gives
\* ScenarioIdentities genuine pairs and ImpostorCap impostor pairs.
SameIdentityPairs ==
  {p \in (DOMAIN embeddings_df) \X (DOMAIN embeddings_df) :
     p[1] < p[2] /\ embeddings_df[p[1]].identity = embeddings_df[p[2]].identity}

OtherIdentityPairs ==
  {p \in (DOMAIN embeddings_df) \X (DOMAIN embeddings_df) :
     p[1] < p[2] /\ embeddings_df[p[1]].identity # embeddings_df[p[2]].identity}

Occurrences(i, j, label) ==
  Cardinality({x \in DOMAIN pair_list : pair_list[x] = <<i, j, label>>})

Labelled(label) == {x \in DOMAIN pair_list : pair_list[x][3] = label}

Min2(a, b) == IF a <= b THEN a ELSE b

PairsGenerated ==
  gp.phase = "done" =>
    /\ \A p \in SameIdentityPairs : Occurrences(p[1], p[2], 1) = 1
    /\ Cardinality(Labelled(1)) = Cardinality(SameIdentityPairs)
    /\ \A x \in Labelled(0) :
         /\ <<pair_list[x][1], pair_list[x][2]>> \in OtherIdentityPairs
         /\ Occurrences(pair_list[x][1], pair_list[x][2], 0) = 1
    /\ Cardinality(Labelled(0)) =
         Min2(Cardinality(OtherIdentityPairs), ImpostorCap)
    /\ Len(pair_list) = Cardinality(Labelled(0)) + Cardinality(Labelled(1))
    /\ embeddings_df = ScenarioTable =>
         /\ Cardinality(Labelled(1)) = ScenarioIdentities
         /\ Cardinality(Labelled(0)) = ImpostorCap

\* loop passes still possible: identities left, then rows left
PassesLeft(pos) ==
  IF pos.phase = "genuine"
    THEN (Len(unique_identities(embeddings_df)) - pos.k)
           + Len(embeddings_df) + 2
    ELSE IF pos.phase = "impostor" THEN Len(embeddings_df) - pos.k + 1
    ELSE 0

LoopsProgress ==
  \/ gp' = gp
  \/ PassesLeft(gp') >= 0 /\ PassesLeft(gp') < PassesLeft(gp)

C13_IdentityPairing == []PairsGenerated /\ [][LoopsProgress]_vars

\* the scenario table was paired and the cap cut the impostor loop short
C13_Witness ==
  /\ gp.phase = "done"
  /\ embeddings_df = ScenarioTable
  /\ gp.k < Len(embeddings_df)
  /\ Cardinality(Labelled(1)) = ScenarioIdentities
  /\ Cardinality(Labelled(0)) = ImpostorCap
  /\ Cardinality(OtherIdentityPairs) > ImpostorCap

\* C14 (as claimed, for ResultsGenerator.compute_metrics of
\* face_bias_evaluator.py): for every recorded set of scored pairs, overall,
\* per group and per augmentation, FNMR = genuine pairs scoring below the
\* threshold / genuine pairs and FMR = impostor pairs scoring at or above
\* the threshold / impostor pairs.
ConditionalRates(prs, theta, bucket) ==
  LET genuine == {i \in DOMAIN prs : prs[i].label = 1}
      impostor == {i \in DOMAIN prs : prs[i].label = 0}
  IN /\ genuine # {} =>
          REq(bucket.FNMR,
              <<Cardinality({i \in genuine : prs[i].similarity < theta}),
                Cardinality(genuine)>>)
     /\ impostor # {} =>
          REq(bucket.FMR,
              <<Cardinality({i \in impostor : prs[i].similarity >= theta}),
                Cardinality(impostor)>>)

PairsOfGroup(g) == LET Is(p) == p.group = g IN SelectSeq(pairs, Is)
PairsOfAug(a) == LET Is(p) == p.augmentation = a IN SelectSeq(pairs, Is)

C14_ConditionalErrorRates ==
  (pc = "res_done" /\ aug_report.status = "ok") =>
    /\ ConditionalRates(pairs, threshold, aug_report.overall)
    /\ \A g \in DOMAIN aug_report.by_group :
         ConditionalRates(PairsOfGroup(g), threshold, aug_report.by_group[g])
    /\ \A a \in DOMAIN aug_report.by_augmentation :
         ConditionalRates(PairsOfAug(a), threshold,
                          aug_report.by_augmentation[a])

\* C15 (as claimed, for ResultsGenerator.compute_metrics of
\* face_bias_evaluator.py): with no pair recorded the computation returns
\* FMR = 0.0 and FNMR = 0.0 without raising, and when every genuine pair
\* scores below the threshold FNMR = 1.0.
C15_EmptyAndAllRejected ==
  pc = "res_done" =>
    /\ Len(pairs) = 0 =>
         /\ aug_report.status = "ok"
         /\ aug_report.overall.FMR = Zero
         /\ aug_report.overall.FNMR = Zero
    /\ (/\ \E i \in DOMAIN pairs : pairs[i].label = 1
        /\ \A i \in DOMAIN pairs :
             pairs[i].label = 1 => pairs[i].similarity < threshold)
       => (aug_report.status = "ok" /\ REq(aug_report.overall.FNMR, One))

\* C16 (as claimed, for evaluate_bias of face-recognition-bias.py): every
\* generated pair is counted in exactly one group's metrics: the numbers of
\* pairs entering the per-group computations sum to the number of pairs of
\* the overall computation, and both rows of a pair belong to the group the
\* pair is counted in.
ReportedGroups == DOMAIN face_report.by_region

PairsEntering(g) == Included(pair_list, embeddings_df, g)

C16_PairsPartitioned ==
  pc = "face_done" =>
    /\ SumOver(ReportedGroups, [g \in ReportedGroups |-> Len(PairsEntering(g))])
         = Len(PairsEntering(NULL))
    /\ \A g \in ReportedGroups : \A x \in DOMAIN PairsEntering(g) :
         /\ embeddings_df[PairsEntering(g)[x][1]].group = g
         /\ embeddings_df[PairsEntering(g)[x][2]].group = g

\* C17: with no flags generate_recommendations returns exactly one
\* recommendation, the "no significant fairness issues" one; with at least
\* one flag it never returns that one, it includes the disparate-impact
\* advice exactly when the disparate-impact flag is raised and the
\* equal-opportunity advice exactly when the equal-opportunity flag is raised.
HasFlag(name) == \E i \in DOMAIN flags : flags[i].metric = name

Advises(text) == \E i \in DOMAIN recommendations : recommendations[i] = text

C17_RecommendationsByFlag ==
  pc = "fair_reported" =>
    /\ Len(flags) = 0 => recommendations = <<"NO_ISSUES">>
    /\ Len(flags) > 0 =>
         /\ ~Advises("NO_ISSUES")
         /\ Advises("DISPARATE_IMPACT") <=> HasFlag("disparate_impact")
         /\ Advises("PROXY_FEATURES") <=> HasFlag("disparate_impact")
         /\ Advises("EQUAL_OPPORTUNITY_GAP")
              <=> HasFlag("equal_opportunity_difference")

\* flagged for disparate impact only: that advice is given, the other is not
C17_Witness ==
  /\ pc = "fair_reported"
  /\ HasFlag("disparate_impact")
  /\ ~HasFlag("equal_opportunity_difference")
  /\ Advises("DISPARATE_IMPACT")
  /\ ~Advises("EQUAL_OPPORTUNITY_GAP")

\* C18 (as claimed): the flag thresholds can be overridden for a run:
\* evaluating the disparity metrics under the thresholds supplied for the
\* run (flag_config) raises the flags those thresholds dictate.
FlagsDictatedBy(config, fm) ==
  (IF Below(Get(fm, "disparate_impact", One), config.disparate_impact)
     THEN <<Flag("disparate_impact", fm)>> ELSE <<>>)
  \o (IF Above(Get(fm, "demographic_parity_difference", Zero),
               config.difference)
     THEN <<Flag("demographic_parity_difference", fm)>> ELSE <<>>)
  \o (IF Above(Get(fm, "equal_opportunity_difference", Zero),
               config.difference)
     THEN <<Flag("equal_opportunity_difference", fm)>> ELSE <<>>)
  \o (IF Above(Get(fm, "equalized_odds_difference", Zero), config.difference)
     THEN <<Flag("equalized_odds_difference", fm)>> ELSE <<>>)

C18_SuppliedThresholdsDecide ==
  FairEvaluated => flags = FlagsDictatedBy(flag_config, fairness_metrics)

\* C19 (as claimed): two evaluations of the same records with the same
\* threshold (and the seed the caller fixed for both) return identical
\* approval-rate confidence intervals, and identical metrics otherwise.
\* bootstrap_ci takes no seed, so nothing else distinguishes the two runs.
C19_ReproducibleIntervals ==
  (pc = "two_done" /\ threshold = threshold2) =>
    /\ group_metrics2 = group_metrics
    /\ approval_ci2 = approval_ci

\* C20: run_evaluation runs its stages in the order validate inputs, load
\* and validate the CSV, inference, metrics, visualizations, reports; a
\* required column missing from the table is detected in the load stage,
\* before inference or any metric computation; once a stage has failed no
\* later stage runs, no report file or zip is written from then on (none at
\* all when the failure precedes the report stage, never the zip), and the
\* run ends in an error outcome without an assessment.
StageOrder == <<"start", "validated", "loaded", "inferred", "evaluated",
                "visualized", "reported", "done">>

StagePos(stage) == CHOOSE k \in DOMAIN StageOrder : StageOrder[k] = stage

NothingComputed ==
  /\ probability = <<>>
  /\ prediction = <<>>
  /\ group_metrics = EmptyMetrics
  /\ fairness_metrics = EmptyMetrics
  /\ overall_metrics = NoOverall
  /\ flags = <<>>

RunState ==
  /\ ~columns_ok =>
       /\ pc \in {"start", "validated", "error"}
       /\ NothingComputed
       /\ (pc = "error" /\ inputs_valid) => result.error = "Failed to load CSV"
  /\ pc = "error" =>
       /\ result.status = "error"
       /\ "assessment" \notin DOMAIN result
       /\ ReportZip \notin files
       /\ result.error # "report failed" =>
            files = {} /\ summary_json = NoSummary
  /\ pc \in {"start", "validated", "loaded", "inferred", "evaluated",
              "visualized"} => files = {} /\ result = Pending

RunStep ==
  /\ pc # "error"
  /\ \/ pc' = "error" /\ StagePos(pc) < StagePos("reported")
     \/ pc' # "error" /\ StagePos(pc') = StagePos(pc) + 1

C21_NoSubstituteData ==
  (pc = "face_done" /\ face_report.status = "ok") =>
    substituted = NoSubstitutes

C23_PickleGated ==
  (/\ pc = "model_done"
   /\ model.type = "sklearn"
   /\ environment.ALLOW_UNTRUSTED_MODELS # "1")
    => /\ model.status = "ModelLoadingError"
       /\ model.calls = <<>>

\* C24 (as claimed, for face-recognition-bias.py): in a finished report
\* metadata.threshold_used equals the threshold the evaluator was given
\* and metadata.total_groups equals the number of groups that have
\* per-group metrics.
C24_MetadataMatchesRun ==
  (pc = "face_done" /\ face_report.status = "ok") =>
    /\ REq(face_report.metadata.threshold_used, <<threshold, ProbScale>>)
    /\ face_report.metadata.total_groups
         = Cardinality(DOMAIN face_report.by_region)

\* C25: in every per-group record count = TP + FP + TN + FN >= 1 (the
\* number of the group's rows), approval_rate = (TP + FP) / count,
\* accuracy = (TP + TN) / count, recall = TPR, TPR + FNR = 1 when the group
\* has a positive record and both are 0.0 otherwise, FPR + TNR = 1 when it
\* has a negative record and both are 0.0 otherwise, and every rate lies in
\* [0, 1].
InUnit(r) == r[2] > 0 /\ RLe(Zero, r) /\ RLe(r, One)
Complementary(a, b) ==
  a[2] > 0 /\ b[2] > 0 /\ a[1] * b[2] + b[1] * a[2] = a[2] * b[2]

C25_RecordIdentities ==
  Evaluated =>
    \A g \in DOMAIN group_metrics :
      LET m == group_metrics[g]
          c == group_counts[g]
          rows == {i \in Rows : tags[i] = g}
          positives == {i \in rows : labels[i] = 1}
      IN /\ m.count = c.tp + c.fp + c.tn + c.fn
         /\ m.count = Cardinality(rows)
         /\ m.count >= 1
         /\ REq(m.approval_rate, <<c.tp + c.fp, m.count>>)
         /\ REq(m.accuracy, <<c.tp + c.tn, m.count>>)
         /\ m.recall = m.tpr
         /\ IF positives # {}
              THEN Complementary(m.tpr, m.fnr)
              ELSE IsZeroRate(m.tpr) /\ IsZeroRate(m.fnr)
         /\ IF rows \ positives # {}
              THEN Complementary(m.fpr, m.tnr)
              ELSE IsZeroRate(m.fpr) /\ IsZeroRate(m.tnr)
         /\ \A r \in {m.approval_rate, m.accuracy, m.tpr, m.fpr, m.tnr,
                      m.fnr, m.precision, m.recall, m.f1_score} : InUnit(r)

\* a group holding a positive record that was approved and a negative one
C25_Witness ==
  /\ pc = "evaluated"
  /\ \E g \in DOMAIN group_metrics :
       /\ group_counts[g].tp >= 1
       /\ group_counts[g].fp + group_counts[g].tn >= 1
       /\ Complementary(group_metrics[g].tpr, group_metrics[g].fnr)

\* C26: with 2 or more groups equalized_odds_difference is at least
\* equal_opportunity_difference, so the equal-opportunity flag is never
\* raised without the equalized-odds flag.
C26_OddsDominatesOpportunity ==
  (FairEvaluated /\ GroupCount >= 2) =>
    /\ RLe(fairness_metrics.equal_opportunity_difference,
           fairness_metrics.equalized_odds_difference)
    /\ HasFlag("equal_opportunity_difference")
         => HasFlag("equalized_odds_difference")

\* the TPR spread exceeds both the bound and the FPR spread: both flags
C26_Witness ==
  /\ pc = "fair_evaluated"
  /\ GroupCount >= 2
  /\ HasFlag("equal_opportunity_difference")
  /\ HasFlag("equalized_odds_difference")
  /\ \E hi \in FPRs, lo \in FPRs :
       /\ IsMaxOf(hi, FPRs)
       /\ IsMinOf(lo, FPRs)
       /\ RLt(RSub(hi, lo), fairness_metrics.equal_opportunity_difference)

\* C27: an evaluation over fewer than 2 groups raises no flag (the absent
\* metrics default to disparate impact 1.0 and differences 0.0), its
\* assessment is PASS in the written summary and in the returned result,
\* and the 'no issues detected' line is its only recommendation.
C27_FewGroupsPass ==
  GroupCount < 2 =>
    /\ Evaluated => (flags = <<>> /\ DOMAIN fairness_metrics = {})
    /\ pc \in {"reported", "done"} =>
         /\ summary_json.assessment = "PASS"
         /\ recommendations = <<"NO_ISSUES">>
    /\ pc = "done" => result.assessment = "PASS"

\* a full table whose rows all carry the same tag, evaluated to the end
C27_Witness ==
  /\ pc = "done"
  /\ Len(tags) = MaxRecords
  /\ GroupCount = 1
  /\ result.status = "success"
  /\ group_metrics[CHOOSE g \in DOMAIN group_metrics : TRUE].count
       = MaxRecords

\* C28: the impostor pairs of generate_pairs are the first min(T, 1000) of
\* the T pairs (i, j), i < j, of rows with different identities, in
\* row-major order (by i, then by j); the list is a function of the table
\* alone, holds no pair twice and no pair with i >= j.
RowMajorLess(p, q) == p[1] < q[1] \/ (p[1] = q[1] /\ p[2] < q[2])

ImpostorPairs ==
  LET IsImpostor(p) == p[3] = 0 IN SelectSeq(pair_list, IsImpostor)

\* the rows-different-identity pairs up to and including pair p
UpTo(p) == {q \in OtherIdentityPairs : ~RowMajorLess(p, q)}

C28_FirstImpostorsRowMajor ==
  gp.phase = "done" =>
    LET imp == ImpostorPairs
        n == Len(imp)
    IN /\ n = Min2(Cardinality(OtherIdentityPairs), ImpostorCap)
       /\ \A x \in 1..n :
            /\ imp[x][1] \in DOMAIN embeddings_df
            /\ imp[x][2] \in DOMAIN embeddings_df
            /\ imp[x][1] < imp[x][2]
            /\ embeddings_df[imp[x][1]].identity
                 # embeddings_df[imp[x][2]].identity
       /\ \A x \in 1..(n - 1) : RowMajorLess(imp[x], imp[x + 1])
       /\ n > 0 => Cardinality(UpTo(imp[n])) = n

\* the cap stopped the loops inside a row: a later pair of different
\* identities exists and is left out
C28_Witness ==
  /\ gp.phase = "done"
  /\ Len(ImpostorPairs) = ImpostorCap
  /\ \E j \in DOMAIN embeddings_df :
       /\ j > ImpostorPairs[ImpostorCap][2]
       /\ embeddings_df[j].identity
            # embeddings_df[ImpostorPairs[ImpostorCap][1]].identity
  /\ ImpostorPairs[1] = <<1, 3, 0>>

\* C29 (as claimed, for FaceBiasEvaluator.run_evaluation of
\* face_bias_evaluator.py): the recorded pairs come only from images counted
\* in processed_images, so they number at most one per counted image and
\* augmentation ("original" included), and the run fails with 'No valid
\* images were processed' only when no pair was recorded.
C29_PairsOnlyFromCountedImages ==
  pc = "aug_done" =>
    /\ Len(pairs) <= aug_pos.processed_images * (1 + Len(augmentations))
    /\ (aug_report.status = "error"
          /\ aug_report.error = "No valid images were processed")
         => pairs = <<>>

\* C30: whenever the run completes, the reported bias is 0.0 (every recorded
\* pair is labelled 1, so every group's FMR is 0.0).
C30_BiasAlwaysZero ==
  (pc = "aug_done" /\ aug_report.status = "ok") =>
    /\ IsZeroRate(aug_report.bias)
    /\ \A i \in DOMAIN pairs : pairs[i].label = 1
    /\ \A g \in DOMAIN aug_report.detailed_metrics.by_group :
         IsZeroRate(aug_report.detailed_metrics.by_group[g].FMR)

\* a completed run whose pairs include one scored below the threshold
C30_Witness ==
  /\ pc = "aug_done"
  /\ aug_report.status = "ok"
  /\ Len(pairs) >= 2
  /\ \E i \in DOMAIN pairs : pairs[i].prediction = 0
  /\ "male" \in DOMAIN aug_report.detailed_metrics.by_group

====
